---- MODULE Spec2Model ----
(***************************************************************************)
(* Model of loc_counter.py: a counter of code, comment and blank lines of  *)
(* Python files.                                                           *)
(*                                                                         *)
(* Source text is a sequence of symbols.  Each symbol stands for a piece   *)
(* of Python text:                                                         *)
(*   "x"  an identifier character            " "  a space                  *)
(*   "#"  the comment marker                 "Q"  a triple quote           *)
(*   "N"  a line break                       "E"  the two characters \n    *)
(*   "C"  a backslash followed by a line break                             *)
(*   "D"  the text  def f():                                               *)
(* The tokenizer (tokenize.generate_tokens) and the parser (ast.parse)     *)
(* are modelled by what they do on texts over these symbols.               *)
(***************************************************************************)
EXTENDS Integers, Sequences, FiniteSets, TLC

VARIABLES
  \* --- the environment
  strictLexer,    \* whether tokenize raises on a stray backslash (Python >= 3.12)
  fs,             \* the file system: file name -> "absent", "unreadable" or its text
  \* --- one call of count_lines_in_file
  source,         \* the text of the file being counted
  readable,       \* whether open/read of that file succeeds
  fpc,            \* position inside count_lines_in_file
  pos, tline,     \* the token generator's position and line
  comment_lines,  \* Set[int] filled by the token loop
  tokError,       \* whether the token generator has raised
  doc_lines,      \* result of docstring_line_numbers
  parsed,         \* whether ast.parse succeeded
  idx,            \* line number of the classification loop
  total, code, comments, blanks,
  classes,        \* history: the class given to each line so far
  \* --- main and analyze
  mpc,            \* position inside main/analyze
  path,           \* main's path (None before it is known)
  files,          \* find_py_files' list, in discovery order
  i,              \* index into sorted(files) of the next file
  results, agg,   \* analyze's per-file map and aggregate
  attempted,      \* history: the paths count_lines_in_file was called on
  analyzeCalled,  \* history: whether analyze was entered
  printed,        \* what main printed: "none", "notfound" or "result"
  exitCode        \* "running", or the exit status of the process: "0" or "2"

fileVars == <<source, readable, fpc, pos, tline, comment_lines, tokError,
              doc_lines, parsed, idx, total, code, comments, blanks, classes>>
mainVars == <<fs, mpc, path, files, i, results, agg, attempted, analyzeCalled,
              printed, exitCode>>
vars == <<strictLexer, fileVars, mainVars>>

\* ------------------------------------------------------------------ bounds

MaxChunks == 3
MaxFiles == 3

\* ------------------------------------------------------------ source texts

\* The pieces a file text is assembled from.  No piece indents a statement,
\* so the tokenizer's INDENT/DEDENT handling is never exercised.
Chunks ==
  { <<" ", "N">>,            \* a whitespace-only line
    <<"x", "N">>,            \* a code line
    <<"#", "N">>,            \* a comment line
    <<"x", "#", "N">>,       \* code followed by a comment
    <<"Q", "#", "Q", "N">>,  \* a string literal holding a comment marker
    <<"Q", "N">>,            \* a triple quote opening or closing a string
    <<"Q", "E", "Q", "N">>,  \* a one-line string literal holding \n
    <<"Q", "C">>,            \* a triple quote followed by backslash-newline
    <<"E", "N">>,            \* a backslash outside any string: a lexical error
    <<"D">> }                \* def f(): followed by the next piece

RECURSIVE Flatten(_)
Flatten(ss) == IF ss = <<>> THEN <<>> ELSE Head(ss) \o Flatten(Tail(ss))

Texts ==
  { Flatten(cs) : cs \in UNION { [1..n -> Chunks] : n \in 0..MaxChunks } }

\* ---------------------------------------------------- str.splitlines, strip

\* The characters a symbol contributes to its physical line ("N" and "C" end
\* the line; the backslash of "C" stays on the line it ends).
RECURSIVE SplitFrom(_, _, _)
SplitFrom(s, j, cur) ==
  IF j > Len(s) THEN (IF cur = <<>> THEN <<>> ELSE <<cur>>)
  ELSE IF s[j] = "N" THEN <<cur>> \o SplitFrom(s, j + 1, <<>>)
  ELSE IF s[j] = "C" THEN <<Append(cur, "\\")>> \o SplitFrom(s, j + 1, <<>>)
  ELSE SplitFrom(s, j + 1, Append(cur, s[j]))

splitlines(s) == SplitFrom(s, 1, <<>>)

RECURSIVE lstrip(_)
lstrip(l) == IF l # <<>> /\ Head(l) = " " THEN lstrip(Tail(l)) ELSE l

RECURSIVE rstrip(_)
rstrip(l) ==
  IF l # <<>> /\ l[Len(l)] = " " THEN rstrip(SubSeq(l, 1, Len(l) - 1)) ELSE l

strip(l) == rstrip(lstrip(l))

\* ------------------------------------------------ tokenize.generate_tokens

RECURSIVE SkipSpaces(_, _)
SkipSpaces(s, p) ==
  IF p <= Len(s) /\ s[p] = " " THEN SkipSpaces(s, p + 1) ELSE p

\* The position of the line break that ends the comment starting at p, or
\* Len(s) + 1 when the comment runs to the end of the text.
RECURSIVE CommentEnd(_, _)
CommentEnd(s, p) ==
  IF p > Len(s) \/ s[p] \in {"N", "C"} THEN p ELSE CommentEnd(s, p + 1)

\* Scans a triple-quoted string whose opening quote lies before p.
\* ln: the current line; nl: the newline characters of the value so far.
RECURSIVE ScanString(_, _, _, _)
ScanString(s, p, ln, nl) ==
  IF p > Len(s) THEN [closed |-> FALSE, next |-> p, line |-> ln, nl |-> nl]
  ELSE IF s[p] = "Q" THEN [closed |-> TRUE, next |-> p + 1, line |-> ln, nl |-> nl]
  ELSE IF s[p] = "N" THEN ScanString(s, p + 1, ln + 1, nl + 1)
  ELSE IF s[p] = "E" THEN ScanString(s, p + 1, ln, nl + 1)
  ELSE IF s[p] = "C" THEN ScanString(s, p + 1, ln + 1, nl)
  ELSE ScanString(s, p + 1, ln, nl)

Tok(k, ln, eln, nl, nx, nln) ==
  [kind |-> k, line |-> ln, endline |-> eln, nl |-> nl, next |-> nx, nline |-> nln]

\* The next token of s at position from on line ln.  strict: whether a stray
\* backslash raises (Python >= 3.12, and the parser's own tokenizer) or is
\* yielded as an ERRORTOKEN (tokenize of Python <= 3.11).
\* kind "ERROR" stands for the exception the generator raises.
RECURSIVE NextTok(_, _, _, _)
NextTok(s, from, ln, strict) ==
  LET p == SkipSpaces(s, from) IN
  IF p > Len(s) THEN Tok("ENDMARKER", ln, ln, 0, p, ln)
  ELSE IF s[p] = "#" THEN
    LET e == CommentEnd(s, p) IN
    IF e > Len(s) THEN Tok("COMMENT", ln, ln, 0, e, ln)
    ELSE Tok("COMMENT", ln, ln, 0, e + 1, ln + 1)
  ELSE IF s[p] = "Q" THEN
    LET r == ScanString(s, p + 1, ln, 0) IN
    IF r.closed THEN Tok("STRING", ln, r.line, r.nl, r.next, r.line)
    ELSE Tok("ERROR", ln, r.line, 0, r.next, r.line)
  ELSE IF s[p] = "x" THEN Tok("NAME", ln, ln, 0, p + 1, ln)
  ELSE IF s[p] = "D" THEN Tok("DEF", ln, ln, 0, p + 1, ln)
  ELSE IF s[p] = "N" THEN Tok("NEWLINE", ln, ln, 0, p + 1, ln + 1)
  ELSE IF s[p] = "C" THEN
    IF p = Len(s) THEN Tok("ERROR", ln, ln, 0, p + 1, ln)
    ELSE NextTok(s, p + 1, ln + 1, strict)
  ELSE \* "E" outside a string: a backslash not followed by a line break
    IF strict THEN Tok("ERROR", ln, ln, 0, p + 1, ln)
    ELSE Tok("ERRORTOKEN", ln, ln, 0, p + 1, ln)

\* All the tokens of s from position from on; the last one is ENDMARKER or ERROR.
RECURSIVE TokensFrom(_, _, _, _)
TokensAfter(s, t, strict) ==
  IF t.kind \in {"ENDMARKER", "ERROR"} THEN <<t>>
  ELSE <<t>> \o TokensFrom(s, t.next, t.nline, strict)

TokensFrom(s, from, ln, strict) == TokensAfter(s, NextTok(s, from, ln, strict), strict)

generate_tokens(s, strict) == TokensFrom(s, 1, 1, strict)

\* --------------------------------------------------------------- ast.parse

\* The logical lines of a token stream: the tokens between line ends, with
\* comments dropped and empty lines skipped.
RECURSIVE LogicalLines(_, _, _)
LogicalLines(toks, j, cur) ==
  IF j > Len(toks) THEN (IF cur = <<>> THEN <<>> ELSE <<cur>>)
  ELSE IF toks[j].kind \in {"NEWLINE", "COMMENT", "ENDMARKER"} THEN
    (IF cur = <<>> THEN <<>> ELSE <<cur>>) \o LogicalLines(toks, j + 1, <<>>)
  ELSE LogicalLines(toks, j + 1, Append(cur, toks[j]))

\* One or more adjacent string literals (implicit concatenation).
IsStrings(l) == l # <<>> /\ \A k \in 1..Len(l) : l[k].kind = "STRING"

\* simple statement: a name or a (concatenated) string literal
IsSimple(l) == IsStrings(l) \/ (Len(l) = 1 /\ l[1].kind = "NAME")

\* statement: a simple statement, or def f(): followed by one on the same line
IsStmt(l) == IsSimple(l) \/ (Len(l) >= 2 /\ l[1].kind = "DEF" /\ IsSimple(Tail(l)))

RECURSIVE SumNl(_)
SumNl(l) == IF l = <<>> THEN 0 ELSE Head(l).nl + SumNl(Tail(l))

\* ast.Expr node of a simple statement.  value.nl is the number of newline
\* characters of the string constant's value.
ExprNode(l) ==
  [type |-> "Expr",
   value |-> IF IsStrings(l) THEN [type |-> "Constant", isstr |-> TRUE, nl |-> SumNl(l)]
             ELSE [type |-> "Name", isstr |-> FALSE, nl |-> 0],
   lineno |-> l[1].line, end_lineno |-> l[Len(l)].endline, body |-> <<>>]

StmtNode(l) ==
  IF l[1].kind = "DEF"
  THEN [type |-> "FunctionDef", value |-> [type |-> "None", isstr |-> FALSE, nl |-> 0],
        lineno |-> l[1].line, end_lineno |-> l[Len(l)].endline,
        body |-> <<ExprNode(Tail(l))>>]
  ELSE ExprNode(l)

\* The module a token stream parses to; ok = FALSE stands for SyntaxError.
ParseLines(toks, ll) ==
  IF toks[Len(toks)].kind = "ERROR" \/ \E k \in 1..Len(ll) : ~IsStmt(ll[k])
  THEN [ok |-> FALSE, tree |-> [type |-> "Module", body |-> <<>>]]
  ELSE [ok |-> TRUE,
        tree |-> [type |-> "Module", body |-> [k \in 1..Len(ll) |-> StmtNode(ll[k])]]]

ParseTokens(toks) == ParseLines(toks, LogicalLines(toks, 1, <<>>))

\* ast.parse(source)
ast_parse(src) == ParseTokens(generate_tokens(src, TRUE))

\* ast.walk(tree): the module, its statements and the statements of their bodies.
RECURSIVE Bodies(_)
Bodies(stmts) ==
  IF stmts = <<>> THEN <<>> ELSE Head(stmts).body \o Bodies(Tail(stmts))

ast_walk(tree) == <<tree>> \o tree.body \o Bodies(tree.body)

Range(f) == { f[k] : k \in DOMAIN f }

\* ---------------------------------------------------- docstring_line_numbers

\* isinstance(first, ast.Expr) and isinstance(first.value, ast.Constant)
\* and isinstance(first.value.value, str)
IsDocstring(first) ==
  first.type = "Expr" /\ first.value.type = "Constant" /\ first.value.isstr

\* span = docstring_value.count('\n') + 1
span(first) == first.value.nl + 1

\* The lines one node adds to doc_lines.
NodeDocLines(node) ==
  IF node.type \in {"Module", "FunctionDef"} /\ node.body # <<>> /\ IsDocstring(node.body[1])
  THEN LET first == node.body[1]
           start == first.lineno
       IN start .. (start + span(first) - 1)
  ELSE {}

WalkDocLines(r) ==
  IF ~r.ok THEN {}
  ELSE UNION { NodeDocLines(node) : node \in Range(ast_walk(r.tree)) }

docstring_line_numbers(src) == WalkDocLines(ast_parse(src))

\* ------------------------------------------------------- count_lines_in_file

\* The comment lines the token loop collects: the start line of every COMMENT
\* token yielded before the generator ends or raises.
CommentLinesOf(toks) ==
  { toks[k].line : k \in { j \in 1..Len(toks) : toks[j].kind = "COMMENT" } }

\* Mutant of Classify: the membership test comes before the blank test.
Classify_MembershipFirst(raw, n, cl, dl) ==
  IF n \in cl \/ n \in dl THEN "comment"
  ELSE IF strip(raw) = <<>> THEN "blank"
  ELSE "code"

\* One iteration of the classification loop on line number n with text raw.
Classify(raw, n, cl, dl) ==
  IF strip(raw) = <<>> THEN "blank"
  ELSE IF n \in cl \/ n \in dl THEN "comment"
  ELSE "code"

Tally(lines, cl, dl, class) ==
  Cardinality({ k \in 1..Len(lines) : Classify(lines[k], k, cl, dl) = class })

\* The result of the classification loop: (total, code, comments, blanks)
Stats(lines, cl, dl) ==
  [total |-> Len(lines), code |-> Tally(lines, cl, dl, "code"),
   comments |-> Tally(lines, cl, dl, "comment"),
   blanks |-> Tally(lines, cl, dl, "blank")]

\* count_lines_in_file on a readable file
count_lines(src, strict) ==
  Stats(splitlines(src), CommentLinesOf(generate_tokens(src, strict)),
        docstring_line_numbers(src))

\* ------------------------------------- count_lines_in_file, statement by statement

FileIdle ==
  /\ fpc = "open" /\ pos = 1 /\ tline = 1 /\ comment_lines = {}
  /\ tokError = FALSE /\ doc_lines = {} /\ parsed = FALSE /\ idx = 1
  /\ total = 0 /\ code = 0 /\ comments = 0 /\ blanks = 0 /\ classes = <<>>

\* with open(path) as f: source = f.read(); lines = source.splitlines()
Open ==
  /\ fpc = "open" /\ readable
  /\ total' = Len(splitlines(source))
  /\ fpc' = "tokenize"
  /\ UNCHANGED <<strictLexer, mainVars>>
  /\ UNCHANGED <<source, readable, pos, tline, comment_lines, tokError, doc_lines,
                 parsed, idx, code, comments, blanks, classes>>

\* open or read raises: the exception leaves count_lines_in_file
OpenRaises ==
  /\ fpc = "open" /\ ~readable
  /\ fpc' = "raised"
  /\ UNCHANGED <<strictLexer, mainVars>>
  /\ UNCHANGED <<source, readable, pos, tline, comment_lines, tokError, doc_lines,
                 parsed, idx, total, code, comments, blanks, classes>>

\* one iteration of the token loop on a COMMENT token
TokComment ==
  /\ fpc = "tokenize"
  /\ LET t == NextTok(source, pos, tline, strictLexer) IN
     /\ t.kind = "COMMENT"
     /\ comment_lines' = comment_lines \cup {t.line}
     /\ pos' = t.next /\ tline' = t.nline
  /\ UNCHANGED <<strictLexer, mainVars>>
  /\ UNCHANGED <<source, readable, fpc, tokError, doc_lines, parsed, idx, total,
                 code, comments, blanks, classes>>

\* one iteration of the token loop on any other token
TokOther ==
  /\ fpc = "tokenize"
  /\ LET t == NextTok(source, pos, tline, strictLexer) IN
     /\ t.kind \notin {"COMMENT", "ENDMARKER", "ERROR"}
     /\ pos' = t.next /\ tline' = t.nline
  /\ UNCHANGED <<strictLexer, mainVars>>
  /\ UNCHANGED <<source, readable, fpc, comment_lines, tokError, doc_lines, parsed,
                 idx, total, code, comments, blanks, classes>>

\* the generator is exhausted
TokEnd ==
  /\ fpc = "tokenize"
  /\ NextTok(source, pos, tline, strictLexer).kind = "ENDMARKER"
  /\ fpc' = "docstrings"
  /\ UNCHANGED <<strictLexer, mainVars>>
  /\ UNCHANGED <<source, readable, pos, tline, comment_lines, tokError, doc_lines,
                 parsed, idx, total, code, comments, blanks, classes>>

\* Mutant of TokRaises: the handler starts over with an empty set.
TokRaises_Clears ==
  /\ fpc = "tokenize"
  /\ NextTok(source, pos, tline, strictLexer).kind = "ERROR"
  /\ tokError' = TRUE
  /\ comment_lines' = {}
  /\ fpc' = "docstrings"
  /\ UNCHANGED <<strictLexer, mainVars>>
  /\ UNCHANGED <<source, readable, pos, tline, doc_lines, parsed,
                 idx, total, code, comments, blanks, classes>>

\* the generator raises: except Exception: pass
TokRaises ==
  /\ fpc = "tokenize"
  /\ NextTok(source, pos, tline, strictLexer).kind = "ERROR"
  /\ tokError' = TRUE
  /\ fpc' = "docstrings"
  /\ UNCHANGED <<strictLexer, mainVars>>
  /\ UNCHANGED <<source, readable, pos, tline, comment_lines, doc_lines, parsed,
                 idx, total, code, comments, blanks, classes>>

\* Mutant of Docstrings: the parser's exception is not caught and leaves
\* count_lines_in_file.
Docstrings_Propagates ==
  /\ fpc = "docstrings"
  /\ doc_lines' = docstring_line_numbers(source)
  /\ parsed' = ast_parse(source).ok
  /\ fpc' = IF ast_parse(source).ok THEN "classify" ELSE "raised"
  /\ UNCHANGED <<strictLexer, mainVars>>
  /\ UNCHANGED <<source, readable, pos, tline, comment_lines, tokError, idx, total,
                 code, comments, blanks, classes>>

\* doc_lines = docstring_line_numbers(source); code = comments = blanks = 0
Docstrings ==
  /\ fpc = "docstrings"
  /\ doc_lines' = docstring_line_numbers(source)
  /\ parsed' = ast_parse(source).ok
  /\ fpc' = "classify"
  /\ UNCHANGED <<strictLexer, mainVars>>
  /\ UNCHANGED <<source, readable, pos, tline, comment_lines, tokError, idx, total,
                 code, comments, blanks, classes>>

\* Mutant of ClassifyLine: the membership test is an if of its own, not an
\* elif, so a blank line of a docstring is counted twice.
ClassifyLine_IfNotElif ==
  /\ fpc = "classify"
  /\ idx <= Len(splitlines(source))
  /\ LET c == Classify(splitlines(source)[idx], idx, comment_lines, doc_lines) IN
     /\ blanks' = IF c = "blank" THEN blanks + 1 ELSE blanks
     /\ comments' = IF idx \in comment_lines \/ idx \in doc_lines
                    THEN comments + 1 ELSE comments
     /\ code' = IF c = "code" THEN code + 1 ELSE code
     /\ classes' = Append(classes, c)
  /\ idx' = idx + 1
  /\ UNCHANGED <<strictLexer, mainVars>>
  /\ UNCHANGED <<source, readable, fpc, pos, tline, comment_lines, tokError,
                 doc_lines, parsed, total>>

\* one iteration of: for idx, raw in enumerate(lines, start=1)
ClassifyLine ==
  /\ fpc = "classify"
  /\ idx <= Len(splitlines(source))
  /\ LET c == Classify(splitlines(source)[idx], idx, comment_lines, doc_lines) IN
     /\ blanks' = IF c = "blank" THEN blanks + 1 ELSE blanks
     /\ comments' = IF c = "comment" THEN comments + 1 ELSE comments
     /\ code' = IF c = "code" THEN code + 1 ELSE code
     /\ classes' = Append(classes, c)
  /\ idx' = idx + 1
  /\ UNCHANGED <<strictLexer, mainVars>>
  /\ UNCHANGED <<source, readable, fpc, pos, tline, comment_lines, tokError,
                 doc_lines, parsed, total>>

\* return total, code, comments, blanks
Return ==
  /\ fpc = "classify"
  /\ idx > Len(splitlines(source))
  /\ fpc' = "returned"
  /\ UNCHANGED <<strictLexer, mainVars>>
  /\ UNCHANGED <<source, readable, pos, tline, comment_lines, tokError, doc_lines,
                 parsed, idx, total, code, comments, blanks, classes>>

\* ------------------------------------------------------------ paths, os.path

\* A path is the sequence of its components; an absolute path starts with "/".
\* NoPath stands for None (no path argument given).
NoPath == <<>>
cwd == <<"/", "w">>
Dir == <<"/", "w", "p">>
Directories == { <<"/">>, cwd, Dir }

isabs(p) == p # <<>> /\ p[1] = "/"
abspath(p) == IF isabs(p) THEN p ELSE cwd \o p
join(root, fn) == Append(root, fn)

AllPyNames == <<"a.py", "b.py", "c.py", "d.py", "e.py">>
PyNames == { AllPyNames[k] : k \in 1..MaxFiles }
OtherName == "n.txt"
Names == PyNames \cup {OtherName}

\* fn.endswith('.py')
endswith_py(fn) == fn \in PyNames

\* The texts the files of the tree hold: a lone comment line, and a text with
\* a blank line, a commented code line and an unterminated string (a lexical
\* error and a syntax error).  Neither holds a backslash, so both tokenizers
\* agree on them.
FileTexts == { <<"#", "N">>, <<" ", "N", "x", "#", "N", "Q", "N">> }

Absent == [state |-> "absent", text |-> <<>>]
Unreadable == [state |-> "unreadable", text |-> <<>>]
FileStates == {Absent, Unreadable} \cup { [state |-> "ok", text |-> t] : t \in FileTexts }

\* Every file of the tree lives in Dir.
FilePaths == { join(Dir, n) : n \in { m \in Names : fs[m].state # "absent" } }
basename(p) == p[Len(p)]

isfile(p) == abspath(p) \in FilePaths
isdir(p) == abspath(p) \in Directories
exists(p) == p # NoPath /\ (isfile(p) \/ isdir(p))

IsPrefix(p, q) == Len(p) <= Len(q) /\ SubSeq(q, 1, Len(p)) = p

\* os.walk(path): os.path.join(root, fn) of every file below path; root starts
\* as path itself, so the names keep path's form (relative or absolute).
walk(p) ==
  IF ~isdir(p) THEN {}
  ELSE LET a == abspath(p) IN
       { p \o SubSeq(full, Len(a) + 1, Len(full)) :
           full \in { g \in FilePaths : IsPrefix(a, g) } }

Perms(S) ==
  { q \in [1..Cardinality(S) -> S] : \A a, b \in 1..Cardinality(S) : a # b => q[a] # q[b] }

\* find_py_files(path): the lists it may return; the order of a directory
\* walk is the order the file system lists the entries in.
find_py_files(p) ==
  IF isfile(p) /\ endswith_py(basename(p)) THEN { <<abspath(p)>> }
  ELSE Perms({ f \in walk(p) : endswith_py(basename(f)) })

\* sorted(files): string order.  The paths of one list differ in their last
\* component only, so comparing component by component gives the same order.
Alphabet == <<"/", "a.py", "b.py", "c.py", "d.py", "e.py", "n.txt", "p", "q", "w">>
Rank(c) == CHOOSE k \in 1..Len(Alphabet) : Alphabet[k] = c

RECURSIVE PathLess(_, _)
PathLess(p, q) ==
  IF q = <<>> THEN FALSE
  ELSE IF p = <<>> THEN TRUE
  ELSE IF Head(p) # Head(q) THEN Rank(Head(p)) < Rank(Head(q))
  ELSE PathLess(Tail(p), Tail(q))

RECURSIVE Insert(_, _)
Insert(f, srt) ==
  IF srt = <<>> THEN <<f>>
  ELSE IF PathLess(f, Head(srt)) THEN <<f>> \o srt
  ELSE <<Head(srt)>> \o Insert(f, Tail(srt))

RECURSIVE sorted(_)
sorted(fl) == IF fl = <<>> THEN <<>> ELSE Insert(Head(fl), sorted(Tail(fl)))

\* ------------------------------------------------------------ main, analyze

ZeroAgg == [files |-> 0, total |-> 0, code |-> 0, comments |-> 0, blanks |-> 0]

\* the file open(f) reaches
FileAt(f) == fs[basename(abspath(f))]

\* path is None: interactive_choose returns an existing absolute path
MainInteractive ==
  /\ mpc = "start" /\ path = NoPath
  /\ path' \in Directories \cup FilePaths
  /\ mpc' = "check"
  /\ UNCHANGED <<strictLexer, fileVars, fs, files, i, results, agg, attempted,
                 analyzeCalled, printed, exitCode>>

\* path = args.path was given
MainGiven ==
  /\ mpc = "start" /\ path # NoPath
  /\ mpc' = "check"
  /\ UNCHANGED <<strictLexer, fileVars, fs, path, files, i, results, agg, attempted,
                 analyzeCalled, printed, exitCode>>

\* if not os.path.exists(path): print(...); sys.exit(2)
MainNotFound ==
  /\ mpc = "check" /\ ~exists(path)
  /\ printed' = "notfound"
  /\ exitCode' = "2"
  /\ mpc' = "exited"
  /\ UNCHANGED <<strictLexer, fileVars, fs, path, files, i, results, agg, attempted,
                 analyzeCalled>>

\* Mutant of AnalyzeStart: main does not check that the path exists.
AnalyzeStart_NoCheck ==
  /\ mpc = "check"
  /\ analyzeCalled' = TRUE
  /\ files' \in find_py_files(path)
  /\ results' = <<>>
  /\ agg' = ZeroAgg
  /\ i' = 1
  /\ mpc' = "loop"
  /\ UNCHANGED <<strictLexer, fileVars, fs, path, attempted, printed, exitCode>>

\* res = analyze(path): files = find_py_files(path); results = {}; agg = {...}
AnalyzeStart ==
  /\ mpc = "check" /\ exists(path)
  /\ analyzeCalled' = TRUE
  /\ files' \in find_py_files(path)
  /\ results' = <<>>
  /\ agg' = ZeroAgg
  /\ i' = 1
  /\ mpc' = "loop"
  /\ UNCHANGED <<strictLexer, fileVars, fs, path, attempted, printed, exitCode>>

\* Mutant of FileCounted: the counters are not reset between files, so a file
\* is recorded with the running totals.
FileCounted_Cumulative ==
  /\ mpc = "loop" /\ i <= Len(files)
  /\ LET f  == sorted(files)[i]
         st == count_lines(FileAt(f).text, strictLexer)
         cum == [total |-> agg.total + st.total, code |-> agg.code + st.code,
                 comments |-> agg.comments + st.comments,
                 blanks |-> agg.blanks + st.blanks]
     IN /\ FileAt(f).state = "ok"
        /\ results' = [k \in DOMAIN results \cup {f} |-> IF k = f THEN cum ELSE results[k]]
        /\ agg' = [files |-> agg.files + 1, total |-> agg.total + st.total,
                   code |-> agg.code + st.code, comments |-> agg.comments + st.comments,
                   blanks |-> agg.blanks + st.blanks]
        /\ attempted' = Append(attempted, f)
  /\ i' = i + 1
  /\ UNCHANGED <<strictLexer, fileVars, fs, mpc, path, files, analyzeCalled, printed,
                 exitCode>>

\* one iteration of  for f in sorted(files)  in which count_lines_in_file returns
FileCounted ==
  /\ mpc = "loop" /\ i <= Len(files)
  /\ LET f  == sorted(files)[i]
         st == count_lines(FileAt(f).text, strictLexer)
     IN /\ FileAt(f).state = "ok"
        /\ results' = [k \in DOMAIN results \cup {f} |-> IF k = f THEN st ELSE results[k]]
        /\ agg' = [files |-> agg.files + 1, total |-> agg.total + st.total,
                   code |-> agg.code + st.code, comments |-> agg.comments + st.comments,
                   blanks |-> agg.blanks + st.blanks]
        /\ attempted' = Append(attempted, f)
  /\ i' = i + 1
  /\ UNCHANGED <<strictLexer, fileVars, fs, mpc, path, files, analyzeCalled, printed,
                 exitCode>>

\* Mutant of FileSkipped: the file counter is bumped before the file is read.
FileSkipped_Counted ==
  /\ mpc = "loop" /\ i <= Len(files)
  /\ LET f == sorted(files)[i]
     IN /\ FileAt(f).state # "ok"
        /\ attempted' = Append(attempted, f)
  /\ agg' = [agg EXCEPT !.files = @ + 1]
  /\ i' = i + 1
  /\ UNCHANGED <<strictLexer, fileVars, fs, mpc, path, files, results,
                 analyzeCalled, printed, exitCode>>

\* Mutant of FileSkipped: the exception ends the loop (break, not continue).
FileSkipped_Aborts ==
  /\ mpc = "loop" /\ i <= Len(files)
  /\ LET f == sorted(files)[i]
     IN /\ FileAt(f).state # "ok"
        /\ attempted' = Append(attempted, f)
  /\ i' = Len(files) + 1
  /\ UNCHANGED <<strictLexer, fileVars, fs, mpc, path, files, results, agg,
                 analyzeCalled, printed, exitCode>>

\* one iteration in which count_lines_in_file raises: except Exception: continue
FileSkipped ==
  /\ mpc = "loop" /\ i <= Len(files)
  /\ LET f == sorted(files)[i]
     IN /\ FileAt(f).state # "ok"
        /\ attempted' = Append(attempted, f)
  /\ i' = i + 1
  /\ UNCHANGED <<strictLexer, fileVars, fs, mpc, path, files, results, agg,
                 analyzeCalled, printed, exitCode>>

\* analyze returns {'files': results, 'aggregate': agg}; main prints it and returns
AnalyzeReturn ==
  /\ mpc = "loop" /\ i > Len(files)
  /\ printed' = "result"
  /\ exitCode' = "0"
  /\ mpc' = "done"
  /\ UNCHANGED <<strictLexer, fileVars, fs, path, files, i, results, agg, attempted,
                 analyzeCalled>>

\* ----------------------------------------------------------- specifications

ArgPaths ==
  { NoPath, <<"p">>, Dir, <<"p", "a.py">>, join(Dir, "a.py"), <<"q">>,
    <<"/", "w", "q">>, <<"p", OtherName>> }

MainIdle ==
  /\ mpc = "start" /\ files = <<>> /\ i = 1 /\ results = <<>> /\ agg = ZeroAgg
  /\ attempted = <<>> /\ analyzeCalled = FALSE /\ printed = "none"
  /\ exitCode = "running"

\* n.txt is always there: a readable file that is not a Python file
OtherFile == [state |-> "ok", text |-> <<"x", "N">>]

FsStates ==
  { [n \in Names |-> IF n = OtherName THEN OtherFile ELSE g[n]] :
      g \in [PyNames -> FileStates] }

\* main on a path argument over a file tree
Init ==
  /\ strictLexer = FALSE
  /\ fs \in FsStates
  /\ path \in ArgPaths
  /\ MainIdle
  /\ source = <<>> /\ readable = TRUE /\ FileIdle

Next ==
  \/ MainInteractive
  \/ MainGiven
  \/ MainNotFound
  \/ AnalyzeStart
  \/ FileCounted
  \/ FileSkipped
  \/ AnalyzeReturn

Spec == Init /\ [][Next]_vars

\* count_lines_in_file on one file
InitFile ==
  /\ strictLexer \in BOOLEAN
  /\ source \in Texts
  /\ readable \in BOOLEAN
  /\ FileIdle
  /\ fs = [n \in Names |-> Absent]
  /\ path = NoPath
  /\ MainIdle

NextFile ==
  \/ Open
  \/ OpenRaises
  \/ TokComment
  \/ TokOther
  \/ TokEnd
  \/ TokRaises
  \/ Docstrings
  \/ ClassifyLine
  \/ Return

SpecFile == InitFile /\ [][NextFile]_vars

\* ------------------------------------------------------------------ helpers

Lines == splitlines(source)
IsBlankLine(k) == strip(Lines[k]) = <<>>
NumClass(c) == Cardinality({ k \in 1..Len(classes) : classes[k] = c })
HasMarker(l) == \E k \in 1..Len(l) : l[k] = "#"

\* the step-by-step run returns what count_lines computes in one go
StepwiseAgrees ==
  fpc = "returned" =>
    [total |-> total, code |-> code, comments |-> comments, blanks |-> blanks]
      = count_lines(source, strictLexer)

\* --------------------------------------------------------------- properties

\* C1: every FileStats returned by count_lines_in_file has
\* total = code + comments + blanks with no negative field, and every line of
\* the file is counted in exactly one of the three counters, also after a
\* lexical error or a parse failure.
C1_Partition ==
  /\ total >= 0 /\ code >= 0 /\ comments >= 0 /\ blanks >= 0
  /\ fpc \in {"classify", "returned"} =>
       /\ Len(classes) = idx - 1
       /\ code = NumClass("code")
       /\ comments = NumClass("comment")
       /\ blanks = NumClass("blank")
       /\ code + comments + blanks = idx - 1
  /\ fpc = "returned" =>
       /\ total = Len(Lines)
       /\ Len(classes) = total
       /\ total = code + comments + blanks

C1_Witness ==
  /\ fpc = "returned" /\ tokError /\ ~parsed
  /\ code > 0 /\ comments > 0 /\ blanks > 0

\* C3: a line that is empty after stripping is counted as blank, never as
\* comment or code, even when its number is in comment_lines or doc_lines.
C3_BlankWins ==
  /\ \A k \in 1..Len(classes) : IsBlankLine(k) => classes[k] = "blank"
  /\ fpc = "returned" =>
       blanks = Cardinality({ k \in 1..Len(Lines) : IsBlankLine(k) })

C3_Witness ==
  /\ fpc = "returned"
  /\ \E k \in 1..Len(Lines) : IsBlankLine(k) /\ k \in comment_lines \cup doc_lines

\* The lines the docstring literals span in the source text: from the line the
\* (first) literal starts on to the line the (last) literal ends on.
NodeLiteralLines(node) ==
  IF node.type \in {"Module", "FunctionDef"} /\ node.body # <<>> /\ IsDocstring(node.body[1])
  THEN node.body[1].lineno .. node.body[1].end_lineno
  ELSE {}

LiteralLines(r) ==
  IF ~r.ok THEN {} ELSE UNION { NodeLiteralLines(node) : node \in Range(ast_walk(r.tree)) }

\* C5: the lines docstring_line_numbers marks are exactly the lines the
\* docstring literals span in the source text, for every form of literal.
C5_DocLinesExact ==
  fpc \in {"classify", "returned"} => doc_lines = LiteralLines(ast_parse(source))

\* C6: when the tokenizer raises partway through a file, the comment lines
\* found before the error stay in comment_lines and are classified as
\* comments, the scanner adds no line after the error, and the file still
\* yields its counts instead of being skipped.
C6_LexErrorKeepsComments ==
  [][ tokError' =>
        /\ comment_lines' = comment_lines
        /\ fpc' # "raised"
        /\ fpc' = "returned" =>
             \A k \in comment_lines' :
               k <= Len(splitlines(source')) /\ classes'[k] = "comment" ]_vars

C6_Witness ==
  /\ fpc = "returned" /\ tokError /\ comment_lines # {}
  /\ \A j \in 1..Len(source) : source[j] # "Q"
  /\ \E k \in 1..Len(Lines) :
       /\ k \notin comment_lines /\ HasMarker(Lines[k]) /\ classes[k] = "code"
       /\ \E j \in comment_lines : j < k

\* C7: when the text does not parse, docstring_line_numbers returns the empty
\* set, the scanner's comment lines are still computed and counted as
\* comments, and the file is emitted.
C7_ParseFailure ==
  /\ fpc = "raised" => ~readable
  /\ (fpc \in {"classify", "returned"} /\ ~parsed) =>
       /\ doc_lines = {}
       /\ comment_lines = CommentLinesOf(generate_tokens(source, strictLexer))
       /\ fpc = "returned" =>
            /\ \A k \in comment_lines : classes[k] = "comment"
            /\ comments = Cardinality(comment_lines)

C7_Witness ==
  /\ fpc = "returned" /\ ~parsed /\ ~tokError /\ comments > 0

\* the sum of one field over the entries of a per-file map
RECURSIVE SumOver(_, _, _)
SumOver(m, keys, fld) ==
  IF keys = {} THEN 0
  ELSE LET k == CHOOSE x \in keys : TRUE
       IN m[k][fld] + SumOver(m, keys \ {k}, fld)

AggOf(m) ==
  [files |-> Cardinality(DOMAIN m), total |-> SumOver(m, DOMAIN m, "total"),
   code |-> SumOver(m, DOMAIN m, "code"),
   comments |-> SumOver(m, DOMAIN m, "comments"),
   blanks |-> SumOver(m, DOMAIN m, "blanks")]

\* the discovered files that can be read, and what each yields analyzed alone
ReadableOf(S) == { f \in S : FileAt(f).state = "ok" }
AloneMap(S) == [f \in ReadableOf(S) |-> count_lines(FileAt(f).text, strictLexer)]

\* C2: in analyze, after each file is completed or skipped and at return,
\* every field of the aggregate is the sum of that field over the entries of
\* the per-file map, and aggregate.files is the number of entries.
C2_AggregateIsSum == agg = AggOf(results)

C2_Witness ==
  /\ mpc = "done" /\ agg.files >= 2 /\ Len(attempted) > agg.files
  /\ agg.blanks > 0

\* C4: analyze attempts every discovered path exactly once and terminates
\* with a result; the per-file map holds exactly the files that were read; a
\* failing file leaves the map and the aggregate unchanged; readable files
\* after a failing one are still processed and counted.  Termination: while
\* a file is left the iteration either counts or skips it, every step
\* advances i, and i is bounded by the length of the list.
C4_SkipIsolated ==
  /\ [](/\ attempted = SubSeq(sorted(files), 1, i - 1)
        /\ DOMAIN results = ReadableOf(Range(attempted))
        /\ mpc = "loop" =>
             /\ i <= Len(files) + 1
             /\ i <= Len(files) => FileAt(sorted(files)[i]).state \in {"ok", "unreadable"}
        /\ mpc = "done" =>
             /\ Len(attempted) = Len(files)
             /\ Range(attempted) = Range(files)
             /\ DOMAIN results = ReadableOf(Range(files))
             /\ agg.files = Cardinality(ReadableOf(Range(files))))
  /\ [][ (mpc = "loop" /\ i <= Len(files) /\ FileAt(sorted(files)[i]).state # "ok")
           => (results' = results /\ agg' = agg) ]_vars
  /\ [][ mpc = "loop" =>
           \/ mpc' = "loop" /\ i <= Len(files) /\ i' = i + 1
           \/ mpc' = "done" /\ i = Len(files) + 1 /\ results' = results /\ agg' = agg ]_vars

C4_Witness ==
  /\ mpc = "done" /\ Len(files) >= 3
  /\ \E a, b \in 1..Len(attempted) :
       /\ a < b
       /\ FileAt(attempted[a]).state = "unreadable"
       /\ attempted[b] \in DOMAIN results

\* C8: every key of the per-file map is an absolute path, for a file or a
\* directory argument, given as an absolute or a relative path.
C8_KeysAbsolute == \A k \in DOMAIN results : isabs(k)

\* C9: a path that does not exist is the only condition that aborts the run:
\* the process exits non-zero before analyze is called and produces no result;
\* when the path exists analyze is entered, runs to completion and the result
\* is printed, whatever per-file errors occur.
C9_OnlyMissingPathAborts ==
  /\ exitCode = "2" =>
       /\ ~exists(path) /\ ~analyzeCalled /\ printed = "notfound"
       /\ results = <<>> /\ mpc = "exited"
  /\ analyzeCalled => (exists(path) /\ exitCode # "2")
  /\ (mpc = "check" /\ exists(path)) => (ENABLED AnalyzeStart /\ ~ENABLED MainNotFound)
  /\ (mpc = "check" /\ ~exists(path)) => (ENABLED MainNotFound /\ ~ENABLED AnalyzeStart)
  /\ mpc = "loop" => (analyzeCalled /\ exitCode = "running" /\ i <= Len(files) + 1)
  /\ mpc = "done" =>
       /\ exitCode = "0" /\ printed = "result" /\ analyzeCalled
       /\ Len(attempted) = Len(files)
  /\ exitCode = "running" <=> mpc \notin {"done", "exited"}

C9_Witness ==
  /\ mpc = "exited" /\ exitCode = "2" /\ printed = "notfound" /\ ~isabs(path)

\* C10: the FileStats recorded for a file is what the file yields analyzed
\* alone, and the final per-file map and aggregate depend only on the set of
\* discovered files, not on the order they were discovered or processed in.
C10_OrderIndependent ==
  /\ \A f \in DOMAIN results : results[f] = count_lines(FileAt(f).text, strictLexer)
  /\ mpc = "done" =>
       /\ results = AloneMap(Range(files))
       /\ agg = AggOf(AloneMap(Range(files)))

C10_Witness ==
  /\ mpc = "done" /\ Cardinality(DOMAIN results) >= 2
  /\ files # sorted(files)
  /\ \E f, g \in DOMAIN results : results[f] # results[g]

====
